---- MODULE Spec2Model ----
(***************************************************************************)
(* Model of codelab-cr-fastapi-firestore-gcs/main.py: a FastAPI service    *)
(* with two routes, GET / (read_root) and POST /upload (handle_upload),    *)
(* over a Cloud Storage bucket and a Firestore collection.                 *)
(*                                                                         *)
(* Requests are handled concurrently (several service instances share the  *)
(* two stores); a handler is interleaved with the others only at its calls *)
(* to the stores.                                                          *)
(***************************************************************************)
EXTENDS Integers, Sequences, FiniteSets, TLC

\* ------------------------------------------------------------- bounds
MaxReq == 2            \* requests received in one execution
MaxNow == 3            \* last instant of the wall clock, in clock ticks
TicksPerSecond == 2    \* resolution of datetime.now() below one second
MaxPartial == 2        \* documents a query delivers at most before it fails

\* ------------------------------------------------- program constants
PLACEHOLDER == "YOUR_BUCKET_NAME_DEFAULT"
QueryLimit == 10
HTTP_OK == 200
HTTP_SEE_OTHER == 303
HTTP_ERROR == 500
HTTP_UNPROCESSABLE == 422

Buckets == {"", PLACEHOLDER, "demo-bucket"}
Filenames == {"photo.jpg", "cat.png"}
NoFile == "<no file>"
Reqs == 1..MaxReq
\* Documents the collection holds at process start: none, or a full page.
Backlogs == {0, QueryLimit}

VARIABLES
    GCS_BUCKET_NAME,   \* configuration, read once at process start
    now,               \* the wall clock, in ticks
    gcs,               \* the bucket: blob name -> id of the request whose bytes it holds
    firestore,         \* the collection: a set of documents
    nextReq,           \* id of the next request to arrive
    route,             \* route[r]: "none", "GET" or "POST"
    pc,                \* pc[r]: where request r stands
    file,              \* file[r]: the uploaded file's name, or NoFile
    gcs_url,           \* gcs_url[r]: what upload_to_gcs returned, or None
    response,          \* response[r]: the HTTP response, or None
    calls,             \* calls[r]: the store calls request r has issued
    path,              \* path[r]: the states request r has gone through
    doc_of,            \* doc_of[r]: uploaded_at of the document r inserted, or 0
    seen               \* seen[r]: for a GET, what it observed when it arrived / queried

vars == <<GCS_BUCKET_NAME, now, gcs, firestore, nextReq, route, pc, file,
          gcs_url, response, calls, path, doc_of, seen>>

\* ------------------------------------------------------ pure helpers

\* strftime("%Y%m%d%H%M%S"): the instant cut to whole seconds.
Strftime(t) == t \div TicksPerSecond

\* f"{timestamp}_{uploadedFile.filename}": 14 digits, "_", the name.
BlobName(timestamp, filename) == <<timestamp, filename>>

\* blob.public_url: the URL of the blob in its bucket.
PublicUrl(bucket_name, blob_name) == [bucket |-> bucket_name, name |-> blob_name]

\* doc.to_dict(): the three stored fields of a document.
ToDict(doc) ==
    [filename |-> doc.filename, gcs_url |-> doc.gcs_url, uploaded_at |-> doc.uploaded_at]

Max(S) == CHOOSE x \in S : \A y \in S : y <= x

\* Mutant of OrderByDescending: the direction left out, oldest first.
RECURSIVE OrderByAscending(_)
OrderByAscending(D) ==
    IF D = {} THEN <<>>
    ELSE LET low == CHOOSE d \in D : \A e \in D : d.uploaded_at <= e.uploaded_at
         IN  <<low>> \o OrderByAscending(D \ {low})

\* order_by("uploaded_at", DESCENDING): the documents, newest first.
RECURSIVE OrderByDescending(_)
OrderByDescending(D) ==
    IF D = {} THEN <<>>
    ELSE LET top == CHOOSE d \in D : \A e \in D : e.uploaded_at <= d.uploaded_at
         IN  <<top>> \o OrderByDescending(D \ {top})

\* .limit(n)
Limit(s, n) == SubSeq(s, 1, IF Len(s) < n THEN Len(s) ELSE n)

\* collection(...).order_by(...).limit(10).stream()
LatestQuery(D) == Limit(OrderByDescending(D), QueryLimit)

\* SERVER_TIMESTAMP: the commit time, later than that of every earlier write.
ServerTimestamp(D) == IF D = {} THEN 1 ELSE Max({d.uploaded_at : d \in D}) + 1

\* document(): a reference with a fresh auto-generated id.
AutoId(D) == IF D = {} THEN 1 ELSE Max({d.id : d \in D}) + 1

\* ------------------------------------------------------- responses

Response(status, media, message, images, trailing) ==
    [status |-> status, media |-> media, message |-> message,
     images |-> images, trailing |-> trailing]

\* What FastAPI sends for a handler's return value: a Response object goes out
\* with its own status code; anything else is JSON-encoded under the route's
\* default status, a tuple becoming a JSON array.
JSONResponse(ret) ==
    Response(HTTP_OK, "json", ret.message, <<>>, ret.trailing)

ReturnDict(message) == [message |-> message, trailing |-> <<>>]
ReturnTuple(message, code) == [message |-> message, trailing |-> <<code>>]

RedirectResponse(url, status_code) ==
    Response(status_code, "redirect", url, <<>>, <<>>)

TemplateResponse(error_message, images, status_code) ==
    Response(status_code, "html", error_message, images, <<>>)

\* A required File(...) parameter that the request does not carry.
ValidationError == Response(HTTP_UNPROCESSABLE, "json", "field required", <<>>, <<>>)

NoResponse == Response(0, "none", "", <<>>, <<>>)
NoUrl == [bucket |-> "", name |-> <<>>]
NoCalls == [blob |-> 0, meta |-> 0, query |-> 0]
NotSeen == [after |-> {}, docs |-> {}, failed |-> FALSE]

\* The terminal state of the POST state machine a response stands for.
Terminal(resp) ==
    CASE resp.media = "redirect" -> "Redirected"
      [] resp.status >= HTTP_ERROR -> "ErrorRendered"
      [] resp.status = HTTP_OK -> "Acknowledged"
      [] OTHER -> "Rejected"

\* ------------------------------------------------------------ state

\* What earlier executions left in the two stores: n uploads, one per second.
OldBlobName(i, n) == BlobName(i - n - 1, "old.jpg")
OldDocs(n) ==
    { [id |-> i, filename |-> "old.jpg",
       gcs_url |-> PublicUrl("demo-bucket", OldBlobName(i, n)),
       uploaded_at |-> i, req |-> 0] : i \in 1..n }
OldBlobs(n) == [k \in {OldBlobName(i, n) : i \in 1..n} |-> 0]

Init ==
    /\ GCS_BUCKET_NAME \in Buckets
    /\ now = 0
    /\ \E n \in Backlogs : firestore = OldDocs(n) /\ gcs = OldBlobs(n)
    /\ nextReq = 1
    /\ route = [r \in Reqs |-> "none"]
    /\ pc = [r \in Reqs |-> "idle"]
    /\ file = [r \in Reqs |-> NoFile]
    /\ gcs_url = [r \in Reqs |-> NoUrl]
    /\ response = [r \in Reqs |-> NoResponse]
    /\ calls = [r \in Reqs |-> NoCalls]
    /\ path = [r \in Reqs |-> <<>>]
    /\ doc_of = [r \in Reqs |-> 0]
    /\ seen = [r \in Reqs |-> NotSeen]

\* ------------------------------------------------------- environment

\* The wall clock advances.
Tick ==
    /\ now < MaxNow
    /\ now' = now + 1
    /\ UNCHANGED <<GCS_BUCKET_NAME, gcs, firestore, nextReq, route, pc, file,
                   gcs_url, response, calls, path, doc_of, seen>>

\* POST /upload arrives, carrying the file f or no file at all.
PostArrive(f) ==
    /\ nextReq <= MaxReq
    /\ route' = [route EXCEPT ![nextReq] = "POST"]
    /\ file' = [file EXCEPT ![nextReq] = f]
    /\ pc' = [pc EXCEPT ![nextReq] = "received"]
    /\ path' = [path EXCEPT ![nextReq] = <<"Received">>]
    /\ nextReq' = nextReq + 1
    /\ UNCHANGED <<GCS_BUCKET_NAME, now, gcs, firestore, gcs_url, response,
                   calls, doc_of, seen>>

\* The uploads that have been answered with the redirect.
Redirected == {p \in Reqs : pc[p] = "done" /\ response[p].media = "redirect"}

\* GET / arrives.
GetArrive ==
    /\ nextReq <= MaxReq
    /\ route' = [route EXCEPT ![nextReq] = "GET"]
    /\ pc' = [pc EXCEPT ![nextReq] = "received"]
    /\ path' = [path EXCEPT ![nextReq] = <<"Received">>]
    /\ seen' = [seen EXCEPT ![nextReq].after = Redirected]
    /\ nextReq' = nextReq + 1
    /\ UNCHANGED <<GCS_BUCKET_NAME, now, gcs, firestore, file, gcs_url,
                   response, calls, doc_of>>

\* ------------------------------------------------------------ GET /

\* The template's images: the dicts of the first k documents of the stream.
Images(docs, k) == [i \in 1..k |-> ToDict(docs[i])]

\* read_root, the query streaming to its end.
read_root(r) ==
    /\ route[r] = "GET" /\ pc[r] = "received"
    /\ LET docs == LatestQuery(firestore)
       IN  response' = [response EXCEPT ![r] =
                           TemplateResponse("", Images(docs, Len(docs)), HTTP_OK)]
    /\ calls' = [calls EXCEPT ![r].query = @ + 1]
    /\ seen' = [seen EXCEPT ![r].docs = firestore]
    /\ pc' = [pc EXCEPT ![r] = "done"]
    /\ path' = [path EXCEPT ![r] = Append(@, "Rendered")]
    /\ UNCHANGED <<GCS_BUCKET_NAME, now, gcs, firestore, nextReq, route, file,
                   gcs_url, doc_of>>

\* read_root, the query raising after the stream has delivered k documents:
\* the except clause logs and the page is rendered with what was appended.
read_root_except(r, k) ==
    /\ route[r] = "GET" /\ pc[r] = "received"
    /\ LET docs == LatestQuery(firestore)
       IN  /\ k <= Len(docs)
           /\ response' = [response EXCEPT ![r] =
                              TemplateResponse("", Images(docs, k), HTTP_OK)]
    /\ calls' = [calls EXCEPT ![r].query = @ + 1]
    /\ seen' = [seen EXCEPT ![r].docs = firestore, ![r].failed = TRUE]
    /\ pc' = [pc EXCEPT ![r] = "done"]
    /\ path' = [path EXCEPT ![r] = Append(@, "Rendered")]
    /\ UNCHANGED <<GCS_BUCKET_NAME, now, gcs, firestore, nextReq, route, file,
                   gcs_url, doc_of>>

\* ------------------------------------------------------ POST /upload

\* file: UploadFile = File(...): a request without the file part is answered
\* by the framework and handle_upload is not called.
request_validation(r) ==
    /\ route[r] = "POST" /\ pc[r] = "received"
    /\ file[r] = NoFile
    /\ response' = [response EXCEPT ![r] = ValidationError]
    /\ pc' = [pc EXCEPT ![r] = "done"]
    /\ path' = [path EXCEPT ![r] = Append(@, Terminal(ValidationError))]
    /\ UNCHANGED <<GCS_BUCKET_NAME, now, gcs, firestore, nextReq, route, file,
                   gcs_url, calls, doc_of, seen>>

\* "not file": an UploadFile object is truthy, whatever it holds.
Not(f) == f = NoFile

\* Mutant of Unconfigured: the empty name is not checked.
UnconfiguredPlaceholderOnly(bucket_name) == bucket_name = PLACEHOLDER

\* not GCS_BUCKET_NAME or GCS_BUCKET_NAME == "YOUR_BUCKET_NAME_DEFAULT"
Unconfigured(bucket_name) == bucket_name = "" \/ bucket_name = PLACEHOLDER

\* handle_upload up to its try block: the two early returns, or on to the upload.
handle_upload(r) ==
    /\ route[r] = "POST" /\ pc[r] = "received"
    /\ file[r] # NoFile
    /\ IF Not(file[r])
       THEN LET resp == JSONResponse(ReturnDict("No upload file sent"))
            IN  /\ response' = [response EXCEPT ![r] = resp]
                /\ pc' = [pc EXCEPT ![r] = "done"]
                /\ path' = [path EXCEPT ![r] = @ \o <<"NoFile", Terminal(resp)>>]
       ELSE IF Unconfigured(GCS_BUCKET_NAME)
       THEN LET resp == JSONResponse(
                            ReturnTuple("GCS Bucket Name not configured.", HTTP_ERROR))
            IN  /\ response' = [response EXCEPT ![r] = resp]
                /\ pc' = [pc EXCEPT ![r] = "done"]
                /\ path' = [path EXCEPT ![r] = @ \o <<"Unconfigured", Terminal(resp)>>]
       ELSE /\ pc' = [pc EXCEPT ![r] = "upload_to_gcs"]
            /\ UNCHANGED <<response, path>>
    /\ UNCHANGED <<GCS_BUCKET_NAME, now, gcs, firestore, nextReq, route, file,
                   gcs_url, calls, doc_of, seen>>

\* Mutant of handle_upload_except: a compensating delete of the request's blob.
handle_upload_except_rollback(r, e, failed) ==
    LET resp == TemplateResponse(<<"Upload failed: ", e>>, <<>>, HTTP_ERROR)
    IN  /\ response' = [response EXCEPT ![r] = resp]
        /\ pc' = [pc EXCEPT ![r] = "done"]
        /\ path' = [path EXCEPT ![r] = @ \o <<failed, Terminal(resp)>>]
        /\ gcs' = [k \in DOMAIN gcs \ {gcs_url[r].name} |-> gcs[k]]
        /\ UNCHANGED firestore

\* Mutant of handle_upload_except: status_code=500 left out of the error page.
handle_upload_except_default_status(r, e, failed) ==
    LET resp == TemplateResponse(<<"Upload failed: ", e>>, <<>>, HTTP_OK)
    IN  /\ response' = [response EXCEPT ![r] = resp]
        /\ pc' = [pc EXCEPT ![r] = "done"]
        /\ path' = [path EXCEPT ![r] = @ \o <<failed, Terminal(resp)>>]
        /\ UNCHANGED <<gcs, firestore>>

\* The except clause of handle_upload: the error page, status 500, no images;
\* neither store is touched.
handle_upload_except(r, e, failed) ==
    LET resp == TemplateResponse(<<"Upload failed: ", e>>, <<>>, HTTP_ERROR)
    IN  /\ response' = [response EXCEPT ![r] = resp]
        /\ pc' = [pc EXCEPT ![r] = "done"]
        /\ path' = [path EXCEPT ![r] = @ \o <<failed, Terminal(resp)>>]
        /\ UNCHANGED <<gcs, firestore>>

\* upload_to_gcs returning: the blob is written under timestamp_filename
\* (replacing a blob of that name) and its public URL comes back.
upload_to_gcs(r) ==
    /\ route[r] = "POST" /\ pc[r] = "upload_to_gcs"
    /\ LET blob_name == BlobName(Strftime(now), file[r])
       IN  /\ gcs' = [k \in DOMAIN gcs \cup {blob_name} |->
                          IF k = blob_name THEN r ELSE gcs[k]]
           /\ gcs_url' = [gcs_url EXCEPT ![r] = PublicUrl(GCS_BUCKET_NAME, blob_name)]
    /\ calls' = [calls EXCEPT ![r].blob = @ + 1]
    /\ pc' = [pc EXCEPT ![r] = "save_metadata_to_firestore"]
    /\ path' = [path EXCEPT ![r] = Append(@, "BlobStored")]
    /\ UNCHANGED <<GCS_BUCKET_NAME, now, firestore, nextReq, route, file,
                   response, doc_of, seen>>

\* Mutant of upload_to_gcs_raise: the exception is logged and not re-raised,
\* so the helper returns no URL and handle_upload goes on to the metadata.
upload_to_gcs_swallow(r) ==
    /\ route[r] = "POST" /\ pc[r] = "upload_to_gcs"
    /\ calls' = [calls EXCEPT ![r].blob = @ + 1]
    /\ pc' = [pc EXCEPT ![r] = "save_metadata_to_firestore"]
    /\ path' = [path EXCEPT ![r] = Append(@, "BlobWriteFailed")]
    /\ UNCHANGED <<GCS_BUCKET_NAME, now, gcs, firestore, nextReq, route, file,
                   gcs_url, response, doc_of, seen>>

\* upload_to_gcs raising: logged, re-raised, caught by handle_upload.
upload_to_gcs_raise(r) ==
    /\ route[r] = "POST" /\ pc[r] = "upload_to_gcs"
    /\ calls' = [calls EXCEPT ![r].blob = @ + 1]
    /\ handle_upload_except(r, "GCSError", "BlobWriteFailed")
    /\ UNCHANGED <<GCS_BUCKET_NAME, now, nextReq, route, file, gcs_url,
                   doc_of, seen>>

\* save_metadata_to_firestore returning: one new document, then the redirect.
save_metadata_to_firestore(r) ==
    /\ route[r] = "POST" /\ pc[r] = "save_metadata_to_firestore"
    /\ LET doc == [id |-> AutoId(firestore), filename |-> file[r],
                   gcs_url |-> gcs_url[r],
                   uploaded_at |-> ServerTimestamp(firestore), req |-> r]
           resp == RedirectResponse("/", HTTP_SEE_OTHER)
       IN  /\ firestore' = firestore \cup {doc}
           /\ doc_of' = [doc_of EXCEPT ![r] = doc.uploaded_at]
           /\ response' = [response EXCEPT ![r] = resp]
           /\ path' = [path EXCEPT ![r] = @ \o <<"MetadataWritten", Terminal(resp)>>]
    /\ calls' = [calls EXCEPT ![r].meta = @ + 1]
    /\ pc' = [pc EXCEPT ![r] = "done"]
    /\ UNCHANGED <<GCS_BUCKET_NAME, now, gcs, nextReq, route, file, gcs_url, seen>>

\* save_metadata_to_firestore raising: logged, re-raised, caught by handle_upload.
save_metadata_to_firestore_raise(r) ==
    /\ route[r] = "POST" /\ pc[r] = "save_metadata_to_firestore"
    /\ calls' = [calls EXCEPT ![r].meta = @ + 1]
    /\ handle_upload_except(r, "FirestoreError", "MetadataWriteFailed")
    /\ UNCHANGED <<GCS_BUCKET_NAME, now, nextReq, route, file, gcs_url,
                   doc_of, seen>>

\* ------------------------------------------------------ specification

Next ==
    \/ Tick
    \/ \E f \in Filenames \cup {NoFile} : PostArrive(f)
    \/ GetArrive
    \/ \E r \in Reqs : read_root(r)
    \/ \E r \in Reqs : \E k \in 0..MaxPartial : read_root_except(r, k)
    \/ \E r \in Reqs : request_validation(r)
    \/ \E r \in Reqs : handle_upload(r)
    \/ \E r \in Reqs : upload_to_gcs(r)
    \/ \E r \in Reqs : upload_to_gcs_raise(r)
    \/ \E r \in Reqs : save_metadata_to_firestore(r)
    \/ \E r \in Reqs : save_metadata_to_firestore_raise(r)

Spec == Init /\ [][Next]_vars

\* ---------------------------------------------------------- properties

InPath(r, state) == \E i \in 1..Len(path[r]) : path[r][i] = state
Posts == {r \in Reqs : route[r] = "POST"}
Gets == {r \in Reqs : route[r] = "GET"}
Done(r) == pc[r] = "done"
DocsOf(r) == {d \in firestore : d.req = r}

\* C1: a request inserts a metadata document only after its own blob write has
\* returned successfully (the document carries the URL that write returned), and
\* a request whose blob write raised issues no metadata write and has no document.
C1_MetadataOnlyAfterBlob ==
    \A r \in Reqs :
        /\ calls[r].meta > 0 =>
              /\ InPath(r, "BlobStored")
              /\ gcs_url[r] # NoUrl
        /\ \A d \in DocsOf(r) : gcs_url[r] # NoUrl /\ d.gcs_url = gcs_url[r]
        /\ InPath(r, "BlobWriteFailed") => calls[r].meta = 0 /\ DocsOf(r) = {}

\* C1 witness: one request has inserted its document, another's blob write failed.
C1_Witness ==
    \E r, q \in Posts :
        /\ DocsOf(r) # {} /\ Done(r)
        /\ InPath(q, "BlobWriteFailed") /\ Done(q)

\* C2: with the bucket name empty or the placeholder, no POST carrying a file
\* issues any call to either store, and both stores stay as they were at start.
C2_UnconfiguredNoStoreCalls ==
    GCS_BUCKET_NAME \in {"", PLACEHOLDER} =>
        /\ \A r \in Posts : file[r] # NoFile => calls[r] = NoCalls
        /\ \E n \in Backlogs : firestore = OldDocs(n) /\ gcs = OldBlobs(n)

\* C2 witness: an upload carrying a file has been answered under an empty bucket name.
C2_Witness ==
    /\ GCS_BUCKET_NAME = ""
    /\ \E r \in Posts : file[r] # NoFile /\ Done(r)

\* C3 (as claimed): with the bucket name empty or the placeholder, the response to
\* a POST carrying a file has status 500 and an error message.
C3_UnconfiguredStatus500 ==
    GCS_BUCKET_NAME \in {"", PLACEHOLDER} =>
        \A r \in Posts : (file[r] # NoFile /\ Done(r)) =>
            /\ response[r].status = HTTP_ERROR
            /\ response[r].message # ""

\* C4 (as claimed): a GET whose query failed, at whatever point, is answered with
\* status 200 and an empty image list.
C4_QueryFailureEmptyList ==
    \A g \in Gets : (Done(g) /\ seen[g].failed) =>
        /\ response[g].status = HTTP_OK
        /\ response[g].images = <<>>

\* C5 (as claimed): a POST without a file is answered with status 200 and the
\* message that nothing was sent, and writes neither blob nor metadata.
C5_NoFileAcknowledged ==
    \A r \in Posts : (file[r] = NoFile /\ Done(r)) =>
        /\ response[r].status = HTTP_OK
        /\ response[r].message = "No upload file sent"
        /\ calls[r] = NoCalls

\* C6: no step removes a blob name from the bucket, and a request whose metadata
\* write failed after its blob write still has its blob in the bucket.
C6_BlobsNeverDeleted ==
    /\ [][\A k \in DOMAIN gcs : k \in DOMAIN gcs']_vars
    /\ [](\A r \in Posts : InPath(r, "MetadataWriteFailed") =>
                gcs_url[r].name \in DOMAIN gcs)

\* C6 witness: a request's metadata write has failed after its blob was stored.
C6_Witness ==
    \E r \in Posts :
        /\ Done(r) /\ InPath(r, "BlobStored") /\ InPath(r, "MetadataWriteFailed")
        /\ gcs_url[r].name \in DOMAIN gcs

\* C7 (as claimed): two uploads of the same filename that were both answered with
\* the redirect have distinct blob names and distinct documents, and each one's
\* blob still holds its own bytes.
C7_SameFilenameDistinctKeys ==
    \A r, q \in Redirected : (r # q /\ file[r] = file[q]) =>
        /\ gcs_url[r].name # gcs_url[q].name
        /\ doc_of[r] # doc_of[q]
        /\ gcs[gcs_url[r].name] = r

\* The documents of a GET's snapshot written after the document of upload r.
Newer(g, r) == {d \in seen[g].docs : d.uploaded_at > doc_of[r]}
Descending(images) ==
    \A i, j \in 1..Len(images) : i < j => images[i].uploaded_at > images[j].uploaded_at
Lists(images, r) ==
    \E i \in 1..Len(images) :
        images[i] = [filename |-> file[r], gcs_url |-> gcs_url[r],
                     uploaded_at |-> doc_of[r]]

ErrorPage(resp) ==
    /\ resp.media = "html" /\ resp.status = HTTP_ERROR
    /\ resp.images = <<>>
    /\ resp.message \in {<<"Upload failed: ", e>> : e \in {"GCSError", "FirestoreError"}}
C9_RedirectIffBothWritesSucceed ==
    GCS_BUCKET_NAME \notin {"", PLACEHOLDER} =>
        \A r \in Posts : (file[r] # NoFile /\ Done(r)) =>
            /\ response[r] = RedirectResponse("/", HTTP_SEE_OTHER)
                  <=> (InPath(r, "BlobStored") /\ InPath(r, "MetadataWritten"))
            /\ (InPath(r, "BlobWriteFailed") \/ InPath(r, "MetadataWriteFailed")) =>
                  ErrorPage(response[r]) /\ calls[r].query = 0
            /\ InPath(r, "BlobStored") \/ InPath(r, "BlobWriteFailed")

\* C9 witness: one upload failed at the blob write, another at the metadata write.
C9_Witness ==
    \E r, q \in Posts :
        /\ Done(r) /\ InPath(r, "BlobWriteFailed")
        /\ Done(q) /\ InPath(q, "MetadataWriteFailed")
        /\ response[r].status = response[q].status

\* The five paths of the POST state machine.
DocumentedPaths ==
    { <<"Received", "BlobStored", "MetadataWritten", "Redirected">>,
      <<"Received", "BlobStored", "MetadataWriteFailed", "ErrorRendered">>,
      <<"Received", "BlobWriteFailed", "ErrorRendered">>,
      <<"Received", "NoFile", "Acknowledged">>,
      <<"Received", "Unconfigured", "ErrorRendered">> }

\* C10 (as claimed): an answered POST has followed one of the five documented
\* paths and has issued at most one blob write and at most one metadata write.
C10_OneOfFivePaths ==
    \A r \in Posts : Done(r) =>
        /\ path[r] \in DocumentedPaths
        /\ calls[r].blob <= 1 /\ calls[r].meta <= 1

====
